---------------------------- MODULE Spec2Model ----------------------------
(***************************************************************************)
(* A model of the church-website backend: the Flask blueprint package      *)
(* (src/backend) and the single-file script (src/church-backend-complete). *)
(*                                                                         *)
(* Text is a sequence of one-character strings, so that sanitize_input and *)
(* validate_email are computed character by character as the code's        *)
(* regular expressions and replacements compute them.  Python's None is    *)
(* the value None below.  JSON fields are strings or absent (None).        *)
(***************************************************************************)
EXTENDS Integers, Sequences, FiniteSets, TLC

\* Python's None: a one-element sequence whose element is not a character,
\* so that it differs from every text, the empty text included.
None == <<"None">>

(***************************************************************************)
(* Bounds of the model.                                                    *)
(***************************************************************************)
\* Largest value of the clock (datetime.now(), in ticks).
MaxTime == 3
\* Number of requests to the rate-limited endpoints in one behaviour.
MaxRequests == 3

(***************************************************************************)
(* Configuration (backend/config.py).                                      *)
(***************************************************************************)
\* RATE_LIMIT_REQUESTS and RATE_LIMIT_PERIOD are read from the environment;
\* the model runs the application configured with a small limit and window.
RATE_LIMIT_REQUESTS == 2
RATE_LIMIT_PERIOD == 3
ADMIN_USERNAME == <<"a", "d", "m", "i", "n">>
ADMIN_PASSWORD == <<"a", "d", "m", "i", "n", "1", "2", "3">>

(***************************************************************************)
(* Characters.                                                             *)
(***************************************************************************)
Letters ==
    {"a","b","c","d","e","f","g","h","i","j","k","l","m","n","o","p","q","r",
     "s","t","u","v","w","x","y","z","A","B","C","D","E","F","G","H","I","J",
     "K","L","M","N","O","P","Q","R","S","T","U","V","W","X","Y","Z"}
Digits == {"0","1","2","3","4","5","6","7","8","9"}
\* [a-zA-Z0-9._%+-]
LocalChars == Letters \cup Digits \cup {".", "_", "%", "+", "-"}
\* [a-zA-Z0-9.-]
DomainChars == Letters \cup Digits \cup {".", "-"}

(***************************************************************************)
(* validate_email: re.match of                                             *)
(*   ^[a-zA-Z0-9._%+-]+@[a-zA-Z0-9.-]+\.[a-zA-Z]{2,}                       *)
(* a match of a prefix of the text: the pattern has no end anchor.         *)
(***************************************************************************)
validate_email(email) ==
    \E i \in 1..Len(email), j \in 1..Len(email) :
        /\ i >= 2
        /\ email[i] = "@"
        /\ \A k \in 1..(i - 1) : email[k] \in LocalChars
        /\ j >= i + 2
        /\ email[j] = "."
        /\ \A k \in (i + 1)..(j - 1) : email[k] \in DomainChars
        /\ j + 2 <= Len(email)
        /\ email[j + 1] \in Letters
        /\ email[j + 2] \in Letters

(***************************************************************************)
(* sanitize_input.                                                         *)
(***************************************************************************)
\* Where the tag that starts at s[1] = "<" ends: the first ">" after it, with
\* no line break before it ("." does not match a line break); 0 if none.
TagEnd(s) ==
    LET ends == {j \in 2..Len(s) :
                    /\ s[j] = ">"
                    /\ \A k \in 2..(j - 1) : s[k] \notin {">", "\n"}}
    IN  IF ends = {} THEN 0 ELSE CHOOSE j \in ends : TRUE

\* re.sub('<.*?>', '', s): every leftmost, shortest <...> is deleted.
RECURSIVE StripTags(_)
StripTags(s) ==
    IF s = <<>> THEN <<>>
    ELSE IF Head(s) = "<" /\ TagEnd(s) # 0
         THEN StripTags(SubSeq(s, TagEnd(s) + 1, Len(s)))
         ELSE <<Head(s)>> \o StripTags(Tail(s))

\* str.replace(old, new) for a one-character old.
RECURSIVE Replace(_, _, _)
Replace(s, old, new) ==
    IF s = <<>> THEN <<>>
    ELSE (IF Head(s) = old THEN new ELSE <<Head(s)>>) \o Replace(Tail(s), old, new)

\* sanitize_input without its last replace.
sanitize_input_keeps_quote(text) ==
    IF text = None THEN None
    ELSE LET clean0 == StripTags(text)
             clean1 == Replace(clean0, "&", <<"&", "a", "m", "p", ";">>)
             clean2 == Replace(clean1, "<", <<"&", "l", "t", ";">>)
             clean3 == Replace(clean2, ">", <<"&", "g", "t", ";">>)
         IN  Replace(clean3, "\"", <<"&", "q", "u", "o", "t", ";">>)

sanitize_input(text) ==
    IF text = None THEN None
    ELSE LET clean0 == StripTags(text)
             clean1 == Replace(clean0, "&", <<"&", "a", "m", "p", ";">>)
             clean2 == Replace(clean1, "<", <<"&", "l", "t", ";">>)
             clean3 == Replace(clean2, ">", <<"&", "g", "t", ";">>)
             clean4 == Replace(clean3, "\"", <<"&", "q", "u", "o", "t", ";">>)
         IN  Replace(clean4, "'", <<"&", "#", "x", "2", "7", ";">>)

\* Python's truth value of a field: None and the empty string are false.
Truthy(v) == v # None /\ v # <<>>


(***************************************************************************)
(* State.                                                                  *)
(***************************************************************************)
VARIABLES
    enabled,          \* app.config['RATE_LIMIT_ENABLED']
    mail_username,    \* app.config['MAIL_USERNAME'], None when not configured
    clock,            \* what datetime.now() returns
    rate_limits,      \* table rate_limits: a set, (ip_address, endpoint, timestamp) is its key
    contacts,         \* table contacts, in insertion order
    prayer_requests,  \* table prayer_requests, in insertion order
    newsletter,       \* table newsletter, in insertion order
    resp,             \* the last request and its response
    hist,             \* the requests made to the rate-limited endpoints so far
    pending,          \* per worker, the POST /newsletter it is in the middle of
    app,              \* which application runs: "package" (backend/) or "script"
    session,          \* per browser session, whether session['is_admin'] is set
    events,           \* table events: a set of rows, id is its key
    sqlite_sequence,  \* AUTOINCREMENT: the largest id events has ever held
    services,         \* table services, in insertion order
    announcements     \* table announcements, in insertion order

publicVars == <<enabled, mail_username, clock, rate_limits, contacts,
                prayer_requests, newsletter, hist, pending>>

adminVars == <<app, session, events, sqlite_sequence, services, announcements>>

vars == <<publicVars, adminVars, resp>>

\* request.remote_addr
Clients == {"10.0.0.1", "10.0.0.2"}

(***************************************************************************)
(* Sample texts.                                                           *)
(***************************************************************************)
TxtA == <<"A">>
TxtHi == <<"h", "i">>
\* Markup only: sanitize_input leaves the empty text.
TxtTag == <<"<", "b", ">">>
EmailBad == <<"b", "a", "d">>
EmailGood == <<"a", "@", "b", ".", "c", "o">>
EmailOther == <<"c", "@", "d", ".", "o", "r", "g">>
\* Accepted by validate_email: only a prefix has to match.
EmailTrailing == <<"a", "@", "b", ".", "c", "o", "<">>

(***************************************************************************)
(* rate_limit(endpoint_name): what the decorator does before the handler.  *)
(* The DELETE and the INSERT run in one implicit transaction that only     *)
(* conn.commit() makes durable; get_db() closes the connection on every    *)
(* path, and closing without a commit rolls the transaction back.          *)
(*   admitted: the wrapped handler is called                               *)
(*   status:   the response when it is not (429, or 500 when the INSERT    *)
(*             raises sqlite3.IntegrityError on the table's primary key)   *)
(***************************************************************************)
\* rate_limit with a commit right after the DELETE: the sweep outlives a
\* rejection.
rate_limit_commit_after_delete(ip_address, endpoint_name, current_time, table) ==
    LET time_window == current_time - RATE_LIMIT_PERIOD
        swept == {r \in table : ~(r.timestamp < time_window)}
        count == Cardinality({r \in swept : /\ r.ip_address = ip_address
                                            /\ r.endpoint = endpoint_name
                                            /\ r.timestamp > time_window})
        entry == [ip_address |-> ip_address, endpoint |-> endpoint_name,
                  timestamp |-> current_time]
    IN  IF ~enabled
        THEN [admitted |-> TRUE, status |-> 0, rate_limits |-> table]
        ELSE IF count >= RATE_LIMIT_REQUESTS
        THEN [admitted |-> FALSE, status |-> 429, rate_limits |-> swept]
        ELSE IF entry \in swept
        THEN [admitted |-> FALSE, status |-> 500, rate_limits |-> swept]
        ELSE [admitted |-> TRUE, status |-> 0, rate_limits |-> swept \cup {entry}]

\* rate_limit without the test of RATE_LIMIT_ENABLED.
rate_limit_always_on(ip_address, endpoint_name, current_time, table) ==
    LET time_window == current_time - RATE_LIMIT_PERIOD
        swept == {r \in table : ~(r.timestamp < time_window)}
        count == Cardinality({r \in swept : /\ r.ip_address = ip_address
                                            /\ r.endpoint = endpoint_name
                                            /\ r.timestamp > time_window})
        entry == [ip_address |-> ip_address, endpoint |-> endpoint_name,
                  timestamp |-> current_time]
    IN  IF count >= RATE_LIMIT_REQUESTS
        THEN [admitted |-> FALSE, status |-> 429, rate_limits |-> table]
        ELSE IF entry \in swept
        THEN [admitted |-> FALSE, status |-> 500, rate_limits |-> table]
        ELSE [admitted |-> TRUE, status |-> 0, rate_limits |-> swept \cup {entry}]

\* rate_limit counting the entry at the very start of the window.
rate_limit_counts_boundary(ip_address, endpoint_name, current_time, table) ==
    LET time_window == current_time - RATE_LIMIT_PERIOD
        swept == {r \in table : ~(r.timestamp < time_window)}
        count == Cardinality({r \in swept : /\ r.ip_address = ip_address
                                            /\ r.endpoint = endpoint_name
                                            /\ r.timestamp >= time_window})
        entry == [ip_address |-> ip_address, endpoint |-> endpoint_name,
                  timestamp |-> current_time]
    IN  IF ~enabled
        THEN [admitted |-> TRUE, status |-> 0, rate_limits |-> table]
        ELSE IF count >= RATE_LIMIT_REQUESTS
        THEN [admitted |-> FALSE, status |-> 429, rate_limits |-> table]
        ELSE IF entry \in swept
        THEN [admitted |-> FALSE, status |-> 500, rate_limits |-> table]
        ELSE [admitted |-> TRUE, status |-> 0, rate_limits |-> swept \cup {entry}]

\* rate_limit rejecting only when more than max_requests entries are counted.
rate_limit_one_too_many(ip_address, endpoint_name, current_time, table) ==
    LET time_window == current_time - RATE_LIMIT_PERIOD
        swept == {r \in table : ~(r.timestamp < time_window)}
        count == Cardinality({r \in swept : /\ r.ip_address = ip_address
                                            /\ r.endpoint = endpoint_name
                                            /\ r.timestamp > time_window})
        entry == [ip_address |-> ip_address, endpoint |-> endpoint_name,
                  timestamp |-> current_time]
    IN  IF ~enabled
        THEN [admitted |-> TRUE, status |-> 0, rate_limits |-> table]
        ELSE IF count > RATE_LIMIT_REQUESTS
        THEN [admitted |-> FALSE, status |-> 429, rate_limits |-> table]
        ELSE IF entry \in swept
        THEN [admitted |-> FALSE, status |-> 500, rate_limits |-> table]
        ELSE [admitted |-> TRUE, status |-> 0, rate_limits |-> swept \cup {entry}]

\* rate_limit counting the entries of the client on every route.
rate_limit_counts_per_client(ip_address, endpoint_name, current_time, table) ==
    LET time_window == current_time - RATE_LIMIT_PERIOD
        swept == {r \in table : ~(r.timestamp < time_window)}
        count == Cardinality({r \in swept : /\ r.ip_address = ip_address
                                            /\ r.timestamp > time_window})
        entry == [ip_address |-> ip_address, endpoint |-> endpoint_name,
                  timestamp |-> current_time]
    IN  IF ~enabled
        THEN [admitted |-> TRUE, status |-> 0, rate_limits |-> table]
        ELSE IF count >= RATE_LIMIT_REQUESTS
        THEN [admitted |-> FALSE, status |-> 429, rate_limits |-> table]
        ELSE IF entry \in swept
        THEN [admitted |-> FALSE, status |-> 500, rate_limits |-> table]
        ELSE [admitted |-> TRUE, status |-> 0, rate_limits |-> swept \cup {entry}]

rate_limit(ip_address, endpoint_name, current_time, table) ==
    LET time_window == current_time - RATE_LIMIT_PERIOD
        swept == {r \in table : ~(r.timestamp < time_window)}
        count == Cardinality({r \in swept : /\ r.ip_address = ip_address
                                            /\ r.endpoint = endpoint_name
                                            /\ r.timestamp > time_window})
        entry == [ip_address |-> ip_address, endpoint |-> endpoint_name,
                  timestamp |-> current_time]
    IN  IF ~enabled
        THEN [admitted |-> TRUE, status |-> 0, rate_limits |-> table]
        ELSE IF count >= RATE_LIMIT_REQUESTS
        THEN [admitted |-> FALSE, status |-> 429, rate_limits |-> table]
        ELSE IF entry \in swept
        THEN [admitted |-> FALSE, status |-> 500, rate_limits |-> table]
        ELSE [admitted |-> TRUE, status |-> 0, rate_limits |-> swept \cup {entry}]

(***************************************************************************)
(* handle_contact.                                                         *)
(***************************************************************************)
\* send_notification without the inner try: a failure of mail.send reaches
\* the handler's outer except.
send_notification_uncaught(send_ok) ==
    IF mail_username = None THEN [mail |-> "skipped", sends |-> 0, raised |-> FALSE]
    ELSE IF send_ok THEN [mail |-> "sent", sends |-> 1, raised |-> FALSE]
    ELSE [mail |-> "failed", sends |-> 1, raised |-> TRUE]

\* The notification: mail.send is called once when MAIL_USERNAME is set; an
\* exception of it is caught and logged, and never leaves the inner try.
send_notification(send_ok) ==
    IF mail_username = None THEN [mail |-> "skipped", sends |-> 0, raised |-> FALSE]
    ELSE IF send_ok THEN [mail |-> "sent", sends |-> 1, raised |-> FALSE]
    ELSE [mail |-> "failed", sends |-> 1, raised |-> FALSE]

\* handle_contact with the required fields tested before sanitize_input.
handle_contact_checks_raw(data, table, send_ok) ==
    LET name == sanitize_input(data.name)
        email == data.email
        subject == sanitize_input(data.subject)
        message == sanitize_input(data.message)
        row == [name |-> name, email |-> email, subject |-> subject,
                message |-> message]
        note == send_notification(send_ok)
    IN  IF ~(Truthy(data.name) /\ Truthy(email) /\ Truthy(data.message))
        THEN [status |-> 400, contacts |-> table, mail |-> "none", sends |-> 0]
        ELSE IF ~validate_email(email)
        THEN [status |-> 400, contacts |-> table, mail |-> "none", sends |-> 0]
        ELSE [status |-> IF note.raised THEN 500 ELSE 201,
              contacts |-> Append(table, row),
              mail |-> note.mail, sends |-> note.sends]

\* handle_contact keeping only the newest submission.
handle_contact_replaces(data, table, send_ok) ==
    LET name == sanitize_input(data.name)
        email == data.email
        subject == sanitize_input(data.subject)
        message == sanitize_input(data.message)
        row == [name |-> name, email |-> email, subject |-> subject,
                message |-> message]
        note == send_notification(send_ok)
    IN  IF ~(Truthy(name) /\ Truthy(email) /\ Truthy(message))
        THEN [status |-> 400, contacts |-> table, mail |-> "none", sends |-> 0]
        ELSE IF ~validate_email(email)
        THEN [status |-> 400, contacts |-> table, mail |-> "none", sends |-> 0]
        ELSE [status |-> IF note.raised THEN 500 ELSE 201,
              contacts |-> <<row>>,
              mail |-> note.mail, sends |-> note.sends]

handle_contact(data, table, send_ok) ==
    LET name == sanitize_input(data.name)
        email == data.email
        subject == sanitize_input(data.subject)
        message == sanitize_input(data.message)
        row == [name |-> name, email |-> email, subject |-> subject,
                message |-> message]
        note == send_notification(send_ok)
    IN  IF ~(Truthy(name) /\ Truthy(email) /\ Truthy(message))
        THEN [status |-> 400, contacts |-> table, mail |-> "none", sends |-> 0]
        ELSE IF ~validate_email(email)
        THEN [status |-> 400, contacts |-> table, mail |-> "none", sends |-> 0]
        ELSE [status |-> IF note.raised THEN 500 ELSE 201,
              contacts |-> Append(table, row),
              mail |-> note.mail, sends |-> note.sends]

(***************************************************************************)
(* handle_prayer_request.                                                  *)
(***************************************************************************)
\* handle_prayer_request storing the submitted name of an anonymous request.
handle_prayer_request_keeps_name(data, table) ==
    LET name == sanitize_input(data.name)
        email == data.email
        request_text == sanitize_input(data.request)
        is_anonymous == data.is_anonymous
        row == [name |-> name, email |-> email,
                request |-> request_text, is_anonymous |-> is_anonymous]
    IN  IF ~Truthy(request_text)
        THEN [status |-> 400, prayer_requests |-> table]
        ELSE IF Truthy(email) /\ ~validate_email(email)
        THEN [status |-> 400, prayer_requests |-> table]
        ELSE [status |-> 201, prayer_requests |-> Append(table, row)]

handle_prayer_request(data, table) ==
    LET name == sanitize_input(data.name)
        email == data.email
        request_text == sanitize_input(data.request)
        is_anonymous == data.is_anonymous
        row == [name |-> IF ~is_anonymous THEN name ELSE None, email |-> email,
                request |-> request_text, is_anonymous |-> is_anonymous]
    IN  IF ~Truthy(request_text)
        THEN [status |-> 400, prayer_requests |-> table]
        ELSE IF Truthy(email) /\ ~validate_email(email)
        THEN [status |-> 400, prayer_requests |-> table]
        ELSE [status |-> 201, prayer_requests |-> Append(table, row)]

(***************************************************************************)
(* handle_newsletter: the SELECT, and what follows it.                     *)
(***************************************************************************)
\* SELECT * FROM newsletter WHERE email = ?  .fetchone(): the first such row
\* as <<row>>, or <<>> for Python's None when there is none.
newsletter_select(email, table) ==
    LET found == {i \in 1..Len(table) : table[i].email = email}
    IN  IF found = {} THEN <<>>
        ELSE <<table[CHOOSE i \in found : \A k \in found : i <= k]>>

\* newsletter_write with an UPDATE that has no WHERE clause.
newsletter_write_update_all(email, existing, table) ==
    IF existing # <<>>
    THEN IF existing[1].is_active
         THEN [status |-> 200, newsletter |-> table]
         ELSE [status |-> 200,
               newsletter |-> [i \in 1..Len(table) |->
                                  [table[i] EXCEPT !.is_active = TRUE]]]
    ELSE IF \E i \in 1..Len(table) : table[i].email = email
         THEN [status |-> 500, newsletter |-> table]
         ELSE [status |-> 201,
               newsletter |-> Append(table, [email |-> email, is_active |-> TRUE])]

\* newsletter_write on a table whose email column is not UNIQUE.
newsletter_write_not_unique(email, existing, table) ==
    IF existing # <<>>
    THEN IF existing[1].is_active
         THEN [status |-> 200, newsletter |-> table]
         ELSE [status |-> 200,
               newsletter |-> [i \in 1..Len(table) |->
                                  IF table[i].email = email
                                  THEN [table[i] EXCEPT !.is_active = TRUE]
                                  ELSE table[i]]]
    ELSE [status |-> 201,
          newsletter |-> Append(table, [email |-> email, is_active |-> TRUE])]

\* The branch taken on `existing`, against the table as it is when the
\* statement runs.  email is UNIQUE: an INSERT of a stored email raises
\* sqlite3.IntegrityError, which the handler's except turns into 500.
newsletter_write(email, existing, table) ==
    IF existing # <<>>
    THEN IF existing[1].is_active
         THEN [status |-> 200, newsletter |-> table]
         ELSE [status |-> 200,
               newsletter |-> [i \in 1..Len(table) |->
                                  IF table[i].email = email
                                  THEN [table[i] EXCEPT !.is_active = TRUE]
                                  ELSE table[i]]]
    ELSE IF \E i \in 1..Len(table) : table[i].email = email
         THEN [status |-> 500, newsletter |-> table]
         ELSE [status |-> 201,
               newsletter |-> Append(table, [email |-> email, is_active |-> TRUE])]

handle_newsletter(data, table) ==
    LET email == data.email
    IN  IF ~Truthy(email) \/ ~validate_email(email)
        THEN [status |-> 400, newsletter |-> table]
        ELSE newsletter_write(email, newsletter_select(email, table), table)

(***************************************************************************)
(* The rate-limited routes, one request each.  A request is one step: the  *)
(* decorator, then the handler when the decorator admits the request.      *)
(***************************************************************************)
\* The log entry of a request: who asked for what and when, and whether the
\* rate limiter let it through to the handler.
Logged(ip, endpoint, ran) ==
    [ip |-> ip, endpoint |-> endpoint, time |-> clock, admitted |-> ran]

\* POST /contact with the handler's validation run ahead of the rate limiter.
PostContact_validates_first(ip, data, send_ok) ==
    /\ Len(hist) < MaxRequests
    /\ LET rl == rate_limit(ip, "contact", clock, rate_limits)
           h == handle_contact(data, contacts, send_ok)
           invalid == h.status = 400
           ran == invalid \/ rl.admitted
           status == IF ran THEN h.status ELSE rl.status
       IN  /\ rate_limits' = IF invalid THEN rate_limits ELSE rl.rate_limits
           /\ contacts' = IF ran THEN h.contacts ELSE contacts
           /\ resp' = [op |-> "contact", ip |-> ip, data |-> data,
                       status |-> status, ran |-> ran,
                       mail |-> IF ran THEN h.mail ELSE "none",
                       sends |-> IF ran THEN h.sends ELSE 0]
           /\ hist' = Append(hist, Logged(ip, "contact", ran))
    /\ UNCHANGED <<enabled, mail_username, clock, prayer_requests, newsletter,
                   pending, adminVars>>

\* POST /contact
PostContact(ip, data, send_ok) ==
    /\ Len(hist) < MaxRequests
    /\ LET rl == rate_limit(ip, "contact", clock, rate_limits)
           h == handle_contact(data, contacts, send_ok)
           status == IF rl.admitted THEN h.status ELSE rl.status
       IN  /\ rate_limits' = rl.rate_limits
           /\ contacts' = IF rl.admitted THEN h.contacts ELSE contacts
           /\ resp' = [op |-> "contact", ip |-> ip, data |-> data,
                       status |-> status, ran |-> rl.admitted,
                       mail |-> IF rl.admitted THEN h.mail ELSE "none",
                       sends |-> IF rl.admitted THEN h.sends ELSE 0]
           /\ hist' = Append(hist, Logged(ip, "contact", rl.admitted))
    /\ UNCHANGED <<enabled, mail_username, clock, prayer_requests, newsletter,
                   pending, adminVars>>

\* POST /prayer-requests
PostPrayerRequest(ip, data) ==
    /\ Len(hist) < MaxRequests
    /\ LET rl == rate_limit(ip, "prayer", clock, rate_limits)
           h == handle_prayer_request(data, prayer_requests)
           status == IF rl.admitted THEN h.status ELSE rl.status
       IN  /\ rate_limits' = rl.rate_limits
           /\ prayer_requests' = IF rl.admitted THEN h.prayer_requests
                                 ELSE prayer_requests
           /\ resp' = [op |-> "prayer", ip |-> ip, data |-> data,
                       status |-> status, ran |-> rl.admitted,
                       mail |-> "none", sends |-> 0]
           /\ hist' = Append(hist, Logged(ip, "prayer", rl.admitted))
    /\ UNCHANGED <<enabled, mail_username, clock, contacts, newsletter,
                   pending, adminVars>>

\* POST /newsletter
PostNewsletter(ip, data) ==
    /\ Len(hist) < MaxRequests
    /\ LET rl == rate_limit(ip, "newsletter", clock, rate_limits)
           h == handle_newsletter(data, newsletter)
           status == IF rl.admitted THEN h.status ELSE rl.status
       IN  /\ rate_limits' = rl.rate_limits
           /\ newsletter' = IF rl.admitted THEN h.newsletter ELSE newsletter
           /\ resp' = [op |-> "newsletter", ip |-> ip, data |-> data,
                       status |-> status, ran |-> rl.admitted,
                       mail |-> "none", sends |-> 0]
           /\ hist' = Append(hist, Logged(ip, "newsletter", rl.admitted))
    /\ UNCHANGED <<enabled, mail_username, clock, contacts, prayer_requests,
                   pending, adminVars>>

\* The threads that serve requests at the same time.
Workers == {"w1", "w2"}

\* POST /newsletter served by worker w, up to and including the SELECT: the
\* decorator, the validation, the SELECT.  Each statement runs on its own;
\* other requests may run between the SELECT and what follows it.
NewsletterSelect(w, ip, data) ==
    /\ Len(hist) < MaxRequests
    /\ pending[w] = <<>>
    /\ LET rl == rate_limit(ip, "newsletter", clock, rate_limits)
           email == data.email
           valid == Truthy(email) /\ validate_email(email)
       IN  /\ rate_limits' = rl.rate_limits
           /\ hist' = Append(hist, Logged(ip, "newsletter", rl.admitted))
           /\ IF rl.admitted /\ valid
              THEN /\ pending' = [pending EXCEPT ![w] =
                          <<[ip |-> ip, data |-> data,
                             existing |-> newsletter_select(email, newsletter)]>>]
                   /\ resp' = resp
              ELSE /\ pending' = pending
                   /\ resp' = [op |-> "newsletter", ip |-> ip, data |-> data,
                               status |-> IF rl.admitted THEN 400 ELSE rl.status,
                               ran |-> rl.admitted, mail |-> "none", sends |-> 0]
    /\ UNCHANGED <<enabled, mail_username, clock, contacts, prayer_requests,
                   newsletter, adminVars>>

\* The rest of worker w's POST /newsletter: the UPDATE or the INSERT, with
\* its commit, or neither.
NewsletterWrite(w) ==
    /\ pending[w] # <<>>
    /\ LET req == pending[w][1]
           h == newsletter_write(req.data.email, req.existing, newsletter)
       IN  /\ newsletter' = h.newsletter
           /\ resp' = [op |-> "newsletter", ip |-> req.ip, data |-> req.data,
                       status |-> h.status, ran |-> TRUE, mail |-> "none",
                       sends |-> 0]
    /\ pending' = [pending EXCEPT ![w] = <<>>]
    /\ UNCHANGED <<enabled, mail_username, clock, rate_limits, contacts,
                   prayer_requests, hist, adminVars>>

\* Time passes between requests.
Tick ==
    /\ clock < MaxTime
    /\ clock' = clock + 1
    /\ UNCHANGED <<enabled, mail_username, rate_limits, contacts,
                   prayer_requests, newsletter, resp, hist, pending, adminVars>>

(***************************************************************************)
(* The admin session gate: admin_login, admin_logout.                      *)
(***************************************************************************)
Sessions == {"s1", "s2"}

\* session.get(key) for a key other than 'is_admin': no route stores one.
session_get(key) == None

\* The values admin_login compares the submitted credentials with: the
\* package reads session.get('ADMIN_USERNAME') and session.get('ADMIN_PASSWORD'),
\* the script app.config['ADMIN_USERNAME'] and app.config['ADMIN_PASSWORD'].
expected_username == IF app = "package" THEN session_get("ADMIN_USERNAME")
                     ELSE ADMIN_USERNAME
expected_password == IF app = "package" THEN session_get("ADMIN_PASSWORD")
                     ELSE ADMIN_PASSWORD

admin_login(data, is_admin) ==
    IF data.username = expected_username /\ data.password = expected_password
    THEN [status |-> 200, is_admin |-> TRUE]
    ELSE [status |-> 401, is_admin |-> is_admin]

\* POST /admin/login
AdminLogin(s, data) ==
    /\ LET r == admin_login(data, session[s])
       IN  /\ session' = [session EXCEPT ![s] = r.is_admin]
           /\ resp' = [op |-> "login", session |-> s, data |-> data,
                       status |-> r.status]
    /\ UNCHANGED <<publicVars, app, events, sqlite_sequence, services,
                   announcements>>

\* POST /admin/logout: session.pop('is_admin', None)
AdminLogout(s) ==
    /\ session' = [session EXCEPT ![s] = FALSE]
    /\ resp' = [op |-> "logout", session |-> s, status |-> 200]
    /\ UNCHANGED <<publicVars, app, events, sqlite_sequence, services,
                   announcements>>

(***************************************************************************)
(* handle_events, handle_event.                                            *)
(***************************************************************************)
\* The row an event body is stored as: every text field but date sanitized.
event_row(id, data) ==
    [id |-> id, title |-> sanitize_input(data.title),
     description |-> sanitize_input(data.description), date |-> data.date,
     time |-> sanitize_input(data.time),
     location |-> sanitize_input(data.location),
     image_url |-> sanitize_input(data.image_url)]

\* handle_events with the validation ahead of the session check.
handle_events_post_validates_first(is_admin, data, table, seq) ==
    LET row == event_row(seq + 1, data)
    IN  IF ~Truthy(row.title) \/ ~Truthy(row.date)
        THEN [status |-> 400, events |-> table, seq |-> seq]
        ELSE IF ~is_admin THEN [status |-> 401, events |-> table, seq |-> seq]
        ELSE [status |-> 201, events |-> table \cup {row}, seq |-> seq + 1]

\* POST /events
handle_events_post(is_admin, data, table, seq) ==
    LET row == event_row(seq + 1, data)
    IN  IF ~is_admin THEN [status |-> 401, events |-> table, seq |-> seq]
        ELSE IF ~Truthy(row.title) \/ ~Truthy(row.date)
        THEN [status |-> 400, events |-> table, seq |-> seq]
        ELSE [status |-> 201, events |-> table \cup {row}, seq |-> seq + 1]

\* PUT /events/<id>: one UPDATE; title and date are NOT NULL, so a None for
\* either raises sqlite3.IntegrityError when a row is updated (500).
handle_event_put(is_admin, event_id, data, table) ==
    LET row == event_row(event_id, data)
        hit == {e \in table : e.id = event_id}
    IN  IF ~is_admin THEN [status |-> 401, events |-> table]
        ELSE IF hit # {} /\ (row.title = None \/ row.date = None)
        THEN [status |-> 500, events |-> table]
        ELSE [status |-> 200, events |-> (table \ hit) \cup {row : e \in hit}]

\* DELETE /events/<id>
handle_event_delete(is_admin, event_id, table) ==
    IF ~is_admin THEN [status |-> 401, events |-> table]
    ELSE [status |-> 200, events |-> {e \in table : e.id # event_id}]

\* GET /events/<id>
handle_event_get(event_id, table) ==
    IF \E e \in table : e.id = event_id THEN [status |-> 200]
    ELSE [status |-> 404]

EventRequest(s, method, event_id, data, status) ==
    [op |-> "events", method |-> method, session |-> s, id |-> event_id,
     data |-> data, status |-> status]

PostEvents(s, data) ==
    /\ LET h == handle_events_post(session[s], data, events, sqlite_sequence)
       IN  /\ events' = h.events
           /\ sqlite_sequence' = h.seq
           /\ resp' = EventRequest(s, "POST", 0, data, h.status)
    /\ UNCHANGED <<publicVars, app, session, services, announcements>>

PutEvent(s, event_id, data) ==
    /\ LET h == handle_event_put(session[s], event_id, data, events)
       IN  /\ events' = h.events
           /\ resp' = EventRequest(s, "PUT", event_id, data, h.status)
    /\ UNCHANGED <<publicVars, app, session, sqlite_sequence, services,
                   announcements>>

DeleteEvent(s, event_id) ==
    /\ LET h == handle_event_delete(session[s], event_id, events)
       IN  /\ events' = h.events
           /\ resp' = EventRequest(s, "DELETE", event_id, None, h.status)
    /\ UNCHANGED <<publicVars, app, session, sqlite_sequence, services,
                   announcements>>

GetEvent(s, event_id) ==
    /\ resp' = EventRequest(s, "GET", event_id, None,
                            handle_event_get(event_id, events).status)
    /\ UNCHANGED <<publicVars, adminVars>>

(***************************************************************************)
(* GET /events:                                                            *)
(*   SELECT * FROM events WHERE date >= date("now")                        *)
(*   ORDER BY date, time LIMIT 50                                          *)
(* The stored dates and times are texts; SQLite compares texts byte by     *)
(* byte, and in ORDER BY a NULL comes before every text.                   *)
(***************************************************************************)
EVENTS_LIMIT == 50

\* The characters the dates and times of the model are written in, in the
\* order of their codes.
CodeOrder == <<"-", "0", "1", "2", "3", "4", "5", "6", "7", "8", "9", ":">>
Code(c) == CHOOSE i \in 1..Len(CodeOrder) : CodeOrder[i] = c

\* a < b for two texts (memcmp, the shorter text first on a common prefix).
RECURSIVE TextLess(_, _)
TextLess(a, b) ==
    IF b = <<>> THEN FALSE
    ELSE IF a = <<>> THEN TRUE
    ELSE IF Head(a) = Head(b) THEN TextLess(Tail(a), Tail(b))
    ELSE Code(Head(a)) < Code(Head(b))

\* a < b for two column values in ORDER BY: NULL first, then the texts.
ValueLess(a, b) ==
    IF a = None THEN b # None
    ELSE IF b = None THEN FALSE
    ELSE TextLess(a, b)

\* date("now"): the day the clock is in, as YYYY-MM-DD.  Where the events
\* listing is concerned one unit of the clock is one day, from 2025-01-01 on.
date_now ==
    <<"2", "0", "2", "5", "-", "0", "1", "-", "0", CodeOrder[clock + 3]>>

\* Row a comes before row b under ORDER BY date, time; rows equal in both
\* come in the order of their ids, the order the table is scanned in.
OrderedBefore(a, b) ==
    IF a.date # b.date THEN ValueLess(a.date, b.date)
    ELSE IF a.time # b.time THEN ValueLess(a.time, b.time)
    ELSE a.id < b.id

\* The rows of a set in ORDER BY date, time: the row that comes before all
\* others, then the rest in order.
RECURSIVE OrderBy(_)
OrderBy(rows) ==
    IF rows = {} THEN <<>>
    ELSE LET first == CHOOSE r \in rows :
                          \A q \in rows \ {r} : OrderedBefore(r, q)
         IN  <<first>> \o OrderBy(rows \ {first})

\* LIMIT n
Limit(rows, n) == IF Len(rows) <= n THEN rows ELSE SubSeq(rows, 1, n)

\* handle_events without the WHERE clause of its SELECT.
handle_events_get_unfiltered(table, today) ==
    [status |-> 200, body |-> Limit(OrderBy(table), EVENTS_LIMIT)]

\* GET /events
handle_events_get(table, today) ==
    [status |-> 200,
     body |-> Limit(OrderBy({e \in table : ~TextLess(e.date, today)}),
                    EVENTS_LIMIT)]

GetEvents(s) ==
    /\ LET h == handle_events_get(events, date_now)
       IN  resp' = [op |-> "events", method |-> "GET", session |-> s, id |-> 0,
                    data |-> None, status |-> h.status, body |-> h.body]
    /\ UNCHANGED <<publicVars, adminVars>>

(***************************************************************************)
(* handle_services.                                                        *)
(***************************************************************************)
\* POST /services: one INSERT, no validation; day and time are NOT NULL, so
\* a None for either raises sqlite3.IntegrityError (500).
handle_services_post(is_admin, data, table) ==
    LET row == [day |-> sanitize_input(data.day), time |-> sanitize_input(data.time),
                type |-> sanitize_input(data.type),
                description |-> sanitize_input(data.description)]
    IN  IF ~is_admin THEN [status |-> 401, services |-> table]
        ELSE IF row.day = None \/ row.time = None
        THEN [status |-> 500, services |-> table]
        ELSE [status |-> 201, services |-> Append(table, row)]

PostServices(s, data) ==
    /\ LET h == handle_services_post(session[s], data, services)
       IN  /\ services' = h.services
           /\ resp' = [op |-> "services", method |-> "POST", session |-> s,
                       data |-> data, status |-> h.status]
    /\ UNCHANGED <<publicVars, app, session, events, sqlite_sequence,
                   announcements>>

\* GET /services: a SELECT
GetServices(s) ==
    /\ resp' = [op |-> "services", method |-> "GET", session |-> s,
                data |-> None, status |-> 200]
    /\ UNCHANGED <<publicVars, adminVars>>

(***************************************************************************)
(* handle_announcements.                                                   *)
(***************************************************************************)
handle_announcements_post(is_admin, data, table) ==
    LET title == sanitize_input(data.title)
        content == sanitize_input(data.content)
        row == [title |-> title, content |-> content,
                expiry_date |-> data.expiry_date, is_active |-> TRUE]
    IN  IF ~is_admin THEN [status |-> 401, announcements |-> table]
        ELSE IF ~Truthy(title) \/ ~Truthy(content)
        THEN [status |-> 400, announcements |-> table]
        ELSE [status |-> 201, announcements |-> Append(table, row)]

PostAnnouncements(s, data) ==
    /\ LET h == handle_announcements_post(session[s], data, announcements)
       IN  /\ announcements' = h.announcements
           /\ resp' = [op |-> "announcements", method |-> "POST", session |-> s,
                       data |-> data, status |-> h.status]
    /\ UNCHANGED <<publicVars, app, session, events, sqlite_sequence, services>>

\* GET /announcements: a SELECT
GetAnnouncements(s) ==
    /\ resp' = [op |-> "announcements", method |-> "GET", session |-> s,
                data |-> None, status |-> 200]
    /\ UNCHANGED <<publicVars, adminVars>>

(***************************************************************************)
(* The initial state.                                                      *)
(***************************************************************************)
NoResponse == [op |-> "none", status |-> 0]

Date2024 == <<"2", "0", "2", "4", "-", "1", "2", "-", "1", "5">>
Date2030 == <<"2", "0", "3", "0", "-", "0", "1", "-", "0", "1">>

\* init_db's sample rows; the model keeps the first of each table, with a
\* one-letter text for each of its texts.
SampleEvent ==
    [id |-> 1, title |-> <<"C">>, description |-> <<"J">>, date |-> Date2024,
     time |-> <<"1", "0">>, location |-> <<"P">>, image_url |-> None]
SampleService ==
    [day |-> <<"S">>, time |-> <<"9">>, type |-> <<"T">>, description |-> <<"W">>]
SampleAnnouncement ==
    [title |-> <<"W">>, content |-> <<"E">>, expiry_date |-> Date2024,
     is_active |-> TRUE]

\* The state after create_app() / init_db(), under the given configuration.
\* The database file outlives the process (CREATE TABLE IF NOT EXISTS keeps
\* what is there): rate_limits and newsletter start with the given rows.
InitWith(en, mu, rl, nl, a) ==
    /\ enabled = en
    /\ mail_username = mu
    /\ clock = 0
    /\ rate_limits = rl
    /\ contacts = <<>>
    /\ prayer_requests = <<>>
    /\ newsletter = nl
    /\ resp = NoResponse
    /\ hist = <<>>
    /\ pending = [w \in Workers |-> <<>>]
    /\ app = a
    /\ session = [s \in Sessions |-> FALSE]
    /\ events = {SampleEvent}
    /\ sqlite_sequence = 1
    /\ services = <<SampleService>>
    /\ announcements = <<SampleAnnouncement>>

(***************************************************************************)
(* Spec: the rate limiter in front of its three routes, two clients, one   *)
(* valid body for each route, limiter on or off.                           *)
(***************************************************************************)
ContactOk == [name |-> TxtA, email |-> EmailGood, subject |-> None,
              message |-> TxtHi]
PrayerOk == [name |-> TxtA, email |-> None, request |-> TxtHi,
             is_anonymous |-> FALSE]
NewsletterOk == [email |-> EmailGood]

\* An entry a run before this one left in rate_limits.
OldEntry == [ip_address |-> "10.0.0.2", endpoint |-> "prayer", timestamp |-> -2]

Init ==
    \E en \in BOOLEAN, rl \in {{}, {OldEntry}} :
        InitWith(en, None, rl, <<>>, "package")

Next ==
    \/ Tick
    \/ \E ip \in Clients : PostContact(ip, ContactOk, TRUE)
    \/ \E ip \in Clients : PostPrayerRequest(ip, PrayerOk)
    \/ \E ip \in Clients : PostNewsletter(ip, NewsletterOk)

Spec == Init /\ [][Next]_vars

(***************************************************************************)
(* Claims about the rate limiter (Spec).                                   *)
(***************************************************************************)
\* The step is a request to a rate-limited route.
IsRequest == hist' # hist
\* The request of the step, as logged.
ThisRequest == hist'[Len(hist')]
\* The logged requests of one client to one route inside the window that
\* ends at time now.
InWindow(ip, endpoint, now) ==
    {i \in 1..Len(hist) : /\ hist[i].ip = ip
                          /\ hist[i].endpoint = endpoint
                          /\ hist[i].time > now - RATE_LIMIT_PERIOD}
\* The stored entries of one client and route inside the window that ends at
\* time now.
Counted(ip, endpoint, now) ==
    {r \in rate_limits : /\ r.ip_address = ip
                         /\ r.endpoint = endpoint
                         /\ r.timestamp > now - RATE_LIMIT_PERIOD}
PublicTables == <<rate_limits, contacts, prayer_requests, newsletter>>

\* C1: with the limiter on, a request that fewer than max_requests requests
\* of the same client and route precede inside its window is admitted; one
\* that max_requests admitted requests precede inside its window is
\* rejected with 429; and one made when no admitted request of the client
\* and route lies inside its window any more is admitted again.
C1_WindowScenario ==
    [][(IsRequest /\ enabled) =>
          LET req == ThisRequest
              before == InWindow(req.ip, req.endpoint, req.time)
              admittedBefore == {i \in before : hist[i].admitted}
          IN  /\ Cardinality(before) < RATE_LIMIT_REQUESTS => req.admitted
              /\ Cardinality(admittedBefore) >= RATE_LIMIT_REQUESTS
                    => ~req.admitted /\ resp'.status = 429
              /\ admittedBefore = {} => req.admitted]_vars

C3_DisabledLimiterIsTransparent ==
    [][(IsRequest /\ ~enabled) =>
          /\ ThisRequest.admitted
          /\ resp'.ran
          /\ resp'.status \in {200, 201, 400}
          /\ rate_limits' = rate_limits]_vars

\* With the limiter off, more requests than max_requests of one client to
\* one route at one time have all reached the handler, and an entry older
\* than the window is still stored.
C3_Witness ==
    /\ ~enabled
    /\ Len(hist) > RATE_LIMIT_REQUESTS
    /\ \A i \in 1..Len(hist) : /\ hist[i].admitted
                               /\ hist[i].ip = hist[1].ip
                               /\ hist[i].endpoint = "contact"
                               /\ hist[i].time = clock
    /\ Len(contacts) = Len(hist)
    /\ \E r \in rate_limits : r.timestamp < clock - RATE_LIMIT_PERIOD

(***************************************************************************)
(* SpecContact: POST /contact from one client, over every combination of   *)
(* present, absent, empty and malformed fields, mail configured or not,    *)
(* the send succeeding or failing.                                         *)
(***************************************************************************)
ContactBodies ==
    [name : {None, TxtA, TxtTag}, email : {<<>>, EmailBad, EmailGood},
     subject : {None}, message : {None, TxtHi}]

InitContact == \E en \in BOOLEAN, mu \in {None, <<"u">>} : InitWith(en, mu, {}, <<>>, "package")

NextContact ==
    \/ Tick
    \/ \E data \in ContactBodies, send_ok \in BOOLEAN :
           PostContact("10.0.0.1", data, send_ok)

SpecContact == InitContact /\ [][NextContact]_vars

(***************************************************************************)
(* Claims about POST /contact (SpecContact).                               *)
(***************************************************************************)
\* name, email and message are all non-empty after sanitization and email
\* passes validate_email.
ContactAcceptable(data) ==
    /\ data.name # None /\ sanitize_input(data.name) # <<>>
    /\ data.email # None /\ data.email # <<>>
    /\ data.message # None /\ sanitize_input(data.message) # <<>>
    /\ validate_email(data.email)
\* The row stored for a body.
ContactRow(data) ==
    [name |-> sanitize_input(data.name), email |-> data.email,
     subject |-> sanitize_input(data.subject),
     message |-> sanitize_input(data.message)]

\* C9: a POST /contact that reaches the handler appends its row to contacts
\* and returns 201 when name, email and message are non-empty after
\* sanitization and email passes validate_email, and otherwise returns 400
\* and leaves contacts unchanged; a request the rate limiter stops is not
\* answered 201 and leaves contacts unchanged.
C9_ContactValidation ==
    [][IsRequest =>
          /\ (resp'.ran /\ ContactAcceptable(resp'.data))
                => /\ resp'.status = 201
                   /\ contacts' = Append(contacts, ContactRow(resp'.data))
          /\ (resp'.ran /\ ~ContactAcceptable(resp'.data))
                => resp'.status = 400 /\ contacts' = contacts
          /\ ~resp'.ran
                => resp'.status \in {429, 500} /\ contacts' = contacts]_vars

\* A body whose name is markup only has just been answered 400, after an
\* earlier body was stored.
C9_Witness ==
    /\ resp.op = "contact"
    /\ resp.ran
    /\ resp.status = 400
    /\ resp.data.name = TxtTag
    /\ resp.data.email = EmailGood
    /\ resp.data.message = TxtHi
    /\ Len(contacts) = 1

\* C10: when the send of the notification of a POST /contact fails, the row
\* is stored, the response is 201, and mail.send was called once.
C10_SendFailureIsIgnored ==
    [][(IsRequest /\ resp'.mail = "failed") =>
          /\ resp'.status = 201
          /\ resp'.sends = 1
          /\ contacts' = Append(contacts, ContactRow(resp'.data))]_vars

\* The send has just failed for a request that was answered 201 and whose
\* row is the last of contacts.
C10_Witness ==
    /\ resp.op = "contact"
    /\ resp.mail = "failed"
    /\ resp.status = 201
    /\ contacts # <<>>
    /\ contacts[Len(contacts)] = ContactRow(resp.data)

(***************************************************************************)
(* SpecNewsletter: POST /newsletter, one request after the other.  The     *)
(* database file outlives the process (CREATE TABLE IF NOT EXISTS): a      *)
(* subscription may be there from an earlier run, and may have been        *)
(* deactivated since, which no route of this application does.             *)
(***************************************************************************)
NewsletterBodies ==
    [email : {None, <<>>, EmailBad, EmailGood, EmailOther, EmailTrailing}]

InitNewsletters ==
    {<<>>,
     <<[email |-> EmailGood, is_active |-> FALSE]>>,
     <<[email |-> EmailOther, is_active |-> FALSE],
       [email |-> EmailGood, is_active |-> FALSE]>>}

InitNewsletter ==
    \E en \in BOOLEAN, nl \in InitNewsletters : InitWith(en, None, {}, nl, "package")

NextNewsletter ==
    \/ Tick
    \/ \E data \in NewsletterBodies : PostNewsletter("10.0.0.1", data)

SpecNewsletter == InitNewsletter /\ [][NextNewsletter]_vars

(***************************************************************************)
(* SpecAdmin: the admin gate and the routes behind it, for the package and *)
(* for the script, two browser sessions.                                   *)
(***************************************************************************)
\* Largest id of the events table.
MaxEventId == 2
\* Rows of services and of announcements.
MaxRows == 2

Credentials ==
    [username : {None, ADMIN_USERNAME}, password : {None, ADMIN_PASSWORD, TxtA}]

EventBody(title, date) ==
    [title |-> title, description |-> None, date |-> date, time |-> None,
     location |-> None, image_url |-> None]
EventBodies == {EventBody(t, d) : t \in {None, <<>>, TxtA}, d \in {None, Date2030}}

ServiceBodies ==
    [day : {None, <<"S">>}, time : {<<"9">>}, type : {None}, description : {None}]

AnnouncementBodies ==
    [title : {TxtA, TxtTag}, content : {TxtHi}, expiry_date : {None}]

InitAdmin == \E a \in {"package", "script"} : InitWith(TRUE, None, {}, <<>>, a)

NextAdmin ==
    \/ \E s \in Sessions, data \in Credentials : AdminLogin(s, data)
    \/ \E s \in Sessions : AdminLogout(s)
    \/ \E s \in Sessions, data \in EventBodies :
           sqlite_sequence < MaxEventId /\ PostEvents(s, data)
    \/ \E s \in Sessions, id \in 1..MaxEventId, data \in EventBodies :
           PutEvent(s, id, data)
    \/ \E s \in Sessions, id \in 1..MaxEventId : DeleteEvent(s, id)
    \/ \E s \in Sessions, id \in 1..MaxEventId : GetEvent(s, id)
    \/ \E s \in Sessions : GetEvents(s)
    \/ \E s \in Sessions, data \in ServiceBodies :
           Len(services) < MaxRows /\ PostServices(s, data)
    \/ \E s \in Sessions : GetServices(s)
    \/ \E s \in Sessions, data \in AnnouncementBodies :
           Len(announcements) < MaxRows /\ PostAnnouncements(s, data)
    \/ \E s \in Sessions : GetAnnouncements(s)

SpecAdmin == InitAdmin /\ [][NextAdmin]_vars

(***************************************************************************)
(* Claims about the admin gate (SpecAdmin).  Every step of SpecAdmin is a  *)
(* request, and resp' is that request and its response.                    *)
(***************************************************************************)
AdminTables == <<events, sqlite_sequence, services, announcements>>
\* The step is a POST, PUT or DELETE on events, services or announcements.
IsMutation ==
    /\ resp'.op \in {"events", "services", "announcements"}
    /\ resp'.method \in {"POST", "PUT", "DELETE"}
\* The step is a POST /admin/login with the configured credentials.
IsConfiguredLogin ==
    /\ resp'.op = "login"
    /\ resp'.data.username = ADMIN_USERNAME
    /\ resp'.data.password = ADMIN_PASSWORD

\* C4: a session's is_admin flag is set only by a POST /admin/login of that
\* session whose username and password equal ADMIN_USERNAME and
\* ADMIN_PASSWORD; no session has the flag initially, and no other request
\* sets it.
C4_FlagOnlyByConfiguredLogin ==
    [][\A s \in Sessions :
          (~session[s] /\ session'[s]) => (IsConfiguredLogin /\ resp'.session = s)]_vars

\* C5: a POST /admin/login with the configured credentials is answered 200
\* and sets the session's flag; the flag stays set until that session's POST
\* /admin/logout, which clears it; a mutating request is answered 401
\* exactly when its session has no flag.
C5_LoginLogoutCycle ==
    [][/\ IsConfiguredLogin
            => resp'.status = 200 /\ session'[resp'.session]
       /\ \A s \in Sessions :
            (session[s] /\ ~(resp'.op = "logout" /\ resp'.session = s))
                => session'[s]
       /\ resp'.op = "logout" => ~session'[resp'.session]
       /\ IsMutation => (resp'.status = 401 <=> ~session[resp'.session])]_vars

\* C6: a POST, PUT or DELETE on events, services or announcements from a
\* session without the is_admin flag is answered 401, whatever its body, and
\* leaves the three tables as they were; a GET on them is served whether or
\* not the flag is set.
C6_MutationNeedsFlag ==
    [][/\ (IsMutation /\ ~session[resp'.session])
            => resp'.status = 401 /\ AdminTables' = AdminTables
       /\ (resp'.op \in {"events", "services", "announcements"}
              /\ resp'.method = "GET")
            => resp'.status \in {200, 404} /\ AdminTables' = AdminTables]_vars

\* A session without the flag has just been answered 401 for a POST /events
\* whose body has no title, while another session is logged in.
C6_Witness ==
    /\ resp.op = "events"
    /\ resp.method = "POST"
    /\ resp.data.title = None
    /\ resp.status = 401
    /\ ~session[resp.session]
    /\ \E s \in Sessions : session[s]

(***************************************************************************)
(* Claims about POST /newsletter (SpecNewsletter, SpecRace).               *)
(***************************************************************************)
\* The rows of a newsletter table that hold the given email.
RowsOf(table, email) == {i \in 1..Len(table) : table[i].email = email}
\* The table with is_active set on row i and nothing else changed.
Reactivated(table, i) == [table EXCEPT ![i].is_active = TRUE]

\* C7: a POST /newsletter with a valid email that reaches the handler adds
\* one active row and returns 201 when the email has no row, returns 200 and
\* changes nothing when it has an active row, and returns 200 and sets
\* is_active on that row alone when it has an inactive row; after it the
\* email has exactly one row, an active one, and handling the same body once
\* more gives the table back unchanged.
C7_SubscribeIsIdempotent ==
    /\ [][(IsRequest /\ resp'.ran /\ Truthy(resp'.data.email)
              /\ validate_email(resp'.data.email)) =>
             LET e == resp'.data.email
                 rows == RowsOf(newsletter, e)
             IN  /\ rows = {} =>
                       /\ resp'.status = 201
                       /\ newsletter' = Append(newsletter,
                                               [email |-> e, is_active |-> TRUE])
                 /\ (\E i \in rows : newsletter[i].is_active) =>
                       /\ resp'.status = 200
                       /\ newsletter' = newsletter
                 /\ (\E i \in rows : ~newsletter[i].is_active) =>
                       /\ resp'.status = 200
                       /\ \E i \in rows : newsletter' = Reactivated(newsletter, i)
                 /\ Cardinality(RowsOf(newsletter', e)) = 1
                 /\ \A i \in RowsOf(newsletter', e) : newsletter'[i].is_active
                 /\ handle_newsletter(resp'.data, newsletter').newsletter
                        = newsletter']_vars

\* An inactive subscription has just been reactivated while another
\* subscription stays inactive.
C7_Witness ==
    /\ resp.op = "newsletter"
    /\ resp.status = 200
    /\ Len(newsletter) = 2
    /\ \E i, j \in 1..2 : /\ newsletter[i].email = resp.data.email
                          /\ newsletter[i].is_active
                          /\ ~newsletter[j].is_active

\* The emails of the newsletter table are pairwise different and each of
\* them passes validate_email.
NewsletterUnique ==
    /\ \A i, j \in 1..Len(newsletter) :
          newsletter[i].email = newsletter[j].email => i = j
    /\ \A i \in 1..Len(newsletter) : validate_email(newsletter[i].email)

NextRace ==
    \/ Tick
    \/ \E w \in Workers, ip \in Clients,
          data \in [email : {EmailBad, EmailGood, EmailOther}] :
           NewsletterSelect(w, ip, data)
    \/ \E w \in Workers : NewsletterWrite(w)

SpecRace == InitNewsletter /\ [][NextRace]_vars

(***************************************************************************)
(* Claims about the events routes (SpecAdmin).                             *)
(***************************************************************************)
\* C11: every row of the events table has a non-empty title and a non-empty
\* date, whatever POST /events, PUT /events/<id> and DELETE /events/<id>
\* requests admin sessions have made.
C11_EventsHaveTitleAndDate ==
    \A e \in events : Truthy(e.title) /\ Truthy(e.date)

\* The step is a request on /events/<id> that passes the session check.
IsEventByIdRequest ==
    /\ resp'.op = "events"
    /\ resp'.method \in {"GET", "PUT", "DELETE"}
    /\ resp'.id # 0
    /\ resp'.method = "GET" \/ session[resp'.session]

\* C12: a GET, and from an admin session a PUT or a DELETE, on /events/<id>
\* with no event of that id stored is answered 404 and leaves the events
\* table as it was.
C12_MissingEventIs404 ==
    [][(IsEventByIdRequest /\ ~\E e \in events : e.id = resp'.id)
          => resp'.status = 404 /\ events' = events]_vars

(***************************************************************************)
(* SpecEvents: the events listing.  One admin session creates, updates and *)
(* deletes events while days pass; the table starts with init_db's sample  *)
(* row or with the rows an earlier run left in the database file, more of  *)
(* them than the listing's LIMIT.                                          *)
(***************************************************************************)
\* Rows of the table an earlier run left.
BulkRows == 52

DateJan2 == <<"2", "0", "2", "5", "-", "0", "1", "-", "0", "2">>

\* Row i of that table: the first in the past, the others on 2025-01-02 or
\* in 2030, with no time or one of two times.
BulkEvent(i) ==
    [id |-> i, title |-> <<"C">>, description |-> None,
     date |-> IF i = 1 THEN Date2024 ELSE IF i % 2 = 0 THEN Date2030 ELSE DateJan2,
     time |-> IF i % 3 = 0 THEN None ELSE IF i % 3 = 1 THEN <<"9">> ELSE <<"1", "0">>,
     location |-> None, image_url |-> None]
BulkEvents == {BulkEvent(i) : i \in 1..BulkRows}

EventAt(date, time) ==
    [title |-> TxtA, description |-> None, date |-> date, time |-> time,
     location |-> None, image_url |-> None]
ListedBodies ==
    {EventAt(DateJan2, None), EventAt(Date2030, <<"1", "0">>),
     EventAt(Date2024, <<"9">>)}

InitEvents ==
    /\ enabled = TRUE
    /\ mail_username = None
    /\ clock = 0
    /\ rate_limits = {}
    /\ contacts = <<>>
    /\ prayer_requests = <<>>
    /\ newsletter = <<>>
    /\ resp = NoResponse
    /\ hist = <<>>
    /\ pending = [w \in Workers |-> <<>>]
    /\ app = "script"
    /\ session = [s \in Sessions |-> FALSE]
    /\ \/ events = {SampleEvent} /\ sqlite_sequence = 1
       \/ events = BulkEvents /\ sqlite_sequence = BulkRows
    /\ services = <<SampleService>>
    /\ announcements = <<SampleAnnouncement>>

NextEvents ==
    \/ Tick
    \/ AdminLogin("s1", [username |-> ADMIN_USERNAME, password |-> ADMIN_PASSWORD])
    \/ \E data \in ListedBodies :
           sqlite_sequence < MaxEventId /\ PostEvents("s1", data)
    \/ \E id \in 1..MaxEventId, data \in ListedBodies : PutEvent("s1", id, data)
    \/ \E id \in 1..MaxEventId : DeleteEvent("s1", id)
    \/ GetEvents("s1")

SpecEvents == InitEvents /\ [][NextEvents]_vars

\* The step is a GET /events: a request, not the passing of a day.
IsListing ==
    /\ clock' = clock
    /\ resp'.op = "events" /\ resp'.method = "GET" /\ resp'.id = 0

\* C13: whatever events were created, updated and deleted before, a GET
\* /events returns stored events only, none with a date before the current
\* date, in ascending order of (date, time), at most 50 of them, and leaves
\* every table as it was.
C13_ListingIsUpcomingSortedCapped ==
    [][IsListing =>
          LET body == resp'.body
          IN  /\ \A i \in 1..Len(body) :
                    body[i] \in events /\ ~TextLess(body[i].date, date_now)
              /\ \A i \in 1..(Len(body) - 1) :
                    /\ ~ValueLess(body[i + 1].date, body[i].date)
                    /\ body[i + 1].date = body[i].date
                          => ~ValueLess(body[i + 1].time, body[i].time)
              /\ Len(body) <= EVENTS_LIMIT
              /\ resp'.status = 200
              /\ <<AdminTables, PublicTables>>' = <<AdminTables, PublicTables>>]_vars

\* A listing has just returned 50 rows although more events than that lie
\* ahead, an event of the past is stored, and an event updated by the admin
\* is in the listing.
C13_Witness ==
    /\ resp.op = "events" /\ resp.method = "GET" /\ resp.id = 0
    /\ Len(resp.body) = EVENTS_LIMIT
    /\ Cardinality({e \in events : ~TextLess(e.date, date_now)}) > EVENTS_LIMIT
    /\ \E e \in events : TextLess(e.date, date_now)
    /\ \E i \in 1..Len(resp.body) : resp.body[i].title = TxtA
    /\ clock > 0

(***************************************************************************)
(* SpecPrayer: POST /prayer-requests from one client, over present, absent *)
(* and malformed fields, anonymous or not.                                 *)
(***************************************************************************)
PrayerBodies ==
    [name : {None, TxtA}, email : {EmailGood}, request : {TxtHi},
     is_anonymous : BOOLEAN]
    \cup [name : {TxtA}, email : {None, EmailBad},
          request : {None, TxtHi, TxtTag}, is_anonymous : {TRUE}]

InitPrayer == \E en \in BOOLEAN : InitWith(en, None, {}, <<>>, "package")

NextPrayer ==
    \/ Tick
    \/ \E data \in PrayerBodies : PostPrayerRequest("10.0.0.1", data)

SpecPrayer == InitPrayer /\ [][NextPrayer]_vars

\* The step is a POST /prayer-requests.
IsPrayerRequest == hist' # hist /\ resp'.op = "prayer"

\* The request text is missing or empty once sanitized, or an email is given
\* and does not pass validate_email.
PrayerRejectable(data) ==
    \/ data.request = None \/ sanitize_input(data.request) = <<>>
    \/ data.email # None /\ data.email # <<>> /\ ~validate_email(data.email)

\* C14: every row of prayer_requests has a non-empty request text, and a
\* row stored for an anonymous submission has a null name whatever name was
\* submitted; a submission that reaches the handler with an empty request,
\* or with a non-empty email that fails validate_email, is answered 400 and
\* adds no row.
C14_PrayerRows ==
    /\ \A i \in 1..Len(prayer_requests) :
          /\ Truthy(prayer_requests[i].request)
          /\ prayer_requests[i].is_anonymous => prayer_requests[i].name = None
    /\ [][(IsPrayerRequest /\ resp'.ran) =>
             /\ PrayerRejectable(resp'.data)
                   => resp'.status = 400 /\ prayer_requests' = prayer_requests
             /\ (resp'.status = 201 /\ resp'.data.is_anonymous)
                   => /\ Len(prayer_requests') = Len(prayer_requests) + 1
                      /\ prayer_requests'[Len(prayer_requests')].name = None]_vars

\* An anonymous submission that gave a name has just been stored without
\* it, the only row after two or more submissions.
C14_Witness ==
    /\ resp.op = "prayer" /\ resp.status = 201
    /\ resp.data.is_anonymous /\ resp.data.name = TxtA
    /\ Len(hist) >= 2 /\ hist[1].admitted
    /\ Len(prayer_requests) = 1
    /\ prayer_requests[1].name = None

(***************************************************************************)
(* The rate limiter, statement by statement, for requests served at the    *)
(* same time.  Each request has its own connection.  datetime.now() is     *)
(* read before the connection is opened.  The DELETE opens the connection's *)
(* write transaction, which SQLite grants to one connection at a time: the  *)
(* DELETE of another connection waits until the first transaction ends, by  *)
(* conn.commit() or by conn.close(), and raises sqlite3.OperationalError    *)
(* ("database is locked") when it has waited for the connection's timeout.  *)
(* pending[w] is the request worker w is in the middle of:                  *)
(*   stage "started": current_time is read, the DELETE has not run          *)
(*   stage "deleted": the DELETE has run, the transaction is open           *)
(*   stage "counted": the SELECT COUNT has run and was below the limit      *)
(*   stage "admitted": the INSERT is committed, the handler has not run     *)
(***************************************************************************)
\* database_locked for a database that never refuses a write transaction.
database_never_locked(w) == FALSE

\* Another connection holds the write transaction.
database_locked(w) ==
    \E v \in Workers \ {w} :
        pending[v] # <<>> /\ pending[v][1].stage \in {"deleted", "counted"}

\* What the transaction of a request with the given current_time sees of the
\* table after its DELETE.
AfterDelete(table, current_time) ==
    {r \in table : ~(r.timestamp < current_time - RATE_LIMIT_PERIOD)}

\* The requests that have been received and not yet answered.
InProgress == {w \in Workers : pending[w] # <<>>}

\* POST /contact arrives at worker w: current_time = datetime.now().
RateLimitEnter(w, ip) ==
    /\ enabled
    /\ pending[w] = <<>>
    /\ Len(hist) + Cardinality(InProgress) < MaxRequests
    /\ pending' = [pending EXCEPT ![w] =
                      <<[ip |-> ip, endpoint |-> "contact", time |-> clock,
                         stage |-> "started"]>>]
    /\ UNCHANGED <<enabled, mail_username, clock, rate_limits, contacts,
                   prayer_requests, newsletter, hist, resp, adminVars>>

\* The request is answered without its handler having run; its transaction,
\* if it has one, is rolled back by conn.close().
RateLimitRefuse(w, status) ==
    /\ resp' = [op |-> "contact", ip |-> pending[w][1].ip, data |-> ContactOk,
                status |-> status, ran |-> FALSE, mail |-> "none", sends |-> 0]
    /\ hist' = Append(hist, [ip |-> pending[w][1].ip, endpoint |-> "contact",
                             time |-> pending[w][1].time, admitted |-> FALSE])
    /\ pending' = [pending EXCEPT ![w] = <<>>]
    /\ UNCHANGED <<enabled, mail_username, clock, rate_limits, contacts,
                   prayer_requests, newsletter, adminVars>>

\* DELETE FROM rate_limits WHERE timestamp < ?
RateLimitDelete(w) ==
    /\ pending[w] # <<>> /\ pending[w][1].stage = "started"
    /\ ~database_locked(w)
    /\ pending' = [pending EXCEPT ![w][1].stage = "deleted"]
    /\ UNCHANGED <<enabled, mail_username, clock, rate_limits, contacts,
                   prayer_requests, newsletter, hist, resp, adminVars>>

\* The DELETE has waited for the write transaction longer than the
\* connection's timeout: sqlite3.OperationalError, which nothing catches.
RateLimitLocked(w) ==
    /\ pending[w] # <<>> /\ pending[w][1].stage = "started"
    /\ database_locked(w)
    /\ RateLimitRefuse(w, 500)

\* SELECT COUNT ... WHERE ip_address = ? AND endpoint = ? AND timestamp > ?
\* and the test of the count.
RateLimitCount(w) ==
    /\ pending[w] # <<>> /\ pending[w][1].stage = "deleted"
    /\ LET req == pending[w][1]
           count == Cardinality(
               {r \in AfterDelete(rate_limits, req.time) :
                   /\ r.ip_address = req.ip
                   /\ r.endpoint = req.endpoint
                   /\ r.timestamp > req.time - RATE_LIMIT_PERIOD})
       IN  IF count >= RATE_LIMIT_REQUESTS
           THEN RateLimitRefuse(w, 429)
           ELSE /\ pending' = [pending EXCEPT ![w][1].stage = "counted"]
                /\ UNCHANGED <<enabled, mail_username, clock, rate_limits,
                               contacts, prayer_requests, newsletter, hist,
                               resp, adminVars>>

\* INSERT INTO rate_limits ... and conn.commit().
RateLimitInsert(w) ==
    /\ pending[w] # <<>> /\ pending[w][1].stage = "counted"
    /\ LET req == pending[w][1]
           entry == [ip_address |-> req.ip, endpoint |-> req.endpoint,
                     timestamp |-> req.time]
       IN  IF entry \in AfterDelete(rate_limits, req.time)
           THEN RateLimitRefuse(w, 500)
           ELSE /\ rate_limits' = AfterDelete(rate_limits, req.time) \cup {entry}
                /\ pending' = [pending EXCEPT ![w][1].stage = "admitted"]
                /\ UNCHANGED <<enabled, mail_username, clock, contacts,
                               prayer_requests, newsletter, hist, resp,
                               adminVars>>

\* The wrapped handler f, called once the connection is closed.
RateLimitHandler(w) ==
    /\ pending[w] # <<>> /\ pending[w][1].stage = "admitted"
    /\ LET req == pending[w][1]
           h == handle_contact(ContactOk, contacts, TRUE)
       IN  /\ contacts' = h.contacts
           /\ resp' = [op |-> "contact", ip |-> req.ip, data |-> ContactOk,
                       status |-> h.status, ran |-> TRUE,
                       mail |-> h.mail, sends |-> h.sends]
           /\ hist' = Append(hist, [ip |-> req.ip, endpoint |-> "contact",
                                    time |-> req.time, admitted |-> TRUE])
    /\ pending' = [pending EXCEPT ![w] = <<>>]
    /\ UNCHANGED <<enabled, mail_username, clock, rate_limits,
                   prayer_requests, newsletter, adminVars>>

(***************************************************************************)
(* SpecBurst: requests of one client to POST /contact served by two        *)
(* workers at the same time, the limiter on.  The thread of every request   *)
(* that has been received keeps being scheduled: the request is eventually  *)
(* taken a step further.                                                    *)
(***************************************************************************)
InitBurst == InitWith(TRUE, None, {}, <<>>, "package")

Stages == {"started", "deleted", "counted", "admitted"}

\* Worker w takes its request a step further: to its next stage, or to its
\* answer.  In every stage one statement of the request can run (for a
\* request whose DELETE waits, the timeout), so such a step is possible
\* whenever the worker has a request.
WorkerProgress(w) ==
    /\ pending[w] # <<>>
    /\ \E p \in {<<>>} \cup {<<[pending[w][1] EXCEPT !.stage = st]>> : st \in Stages} :
          p # pending[w] /\ pending' = [pending EXCEPT ![w] = p]

NextBurst ==
    \/ Tick
    \/ \E w \in Workers : RateLimitEnter(w, "10.0.0.1")
    \/ \E w \in Workers : RateLimitDelete(w)
    \/ \E w \in Workers : RateLimitLocked(w)
    \/ \E w \in Workers : RateLimitCount(w)
    \/ \E w \in Workers : RateLimitInsert(w)
    \/ \E w \in Workers : RateLimitHandler(w)

SpecBurst ==
    /\ InitBurst
    /\ [][NextBurst]_vars
    /\ \A w \in Workers : WF_pending(WorkerProgress(w))

\* More entries of one client and route than max_requests are stored with
\* timestamps inside one window.
OverLimit ==
    \E r \in rate_limits :
        Cardinality({q \in rate_limits :
                        /\ q.ip_address = r.ip_address
                        /\ q.endpoint = r.endpoint
                        /\ q.timestamp > r.timestamp - RATE_LIMIT_PERIOD
                        /\ q.timestamp <= r.timestamp}) > RATE_LIMIT_REQUESTS


\* Every worker has a request of the client in progress, and fewer places
\* than requests are left under the limit in the newest request's window.
BurstReceived ==
    /\ \A w \in Workers : pending[w] # <<>>
    /\ \E w \in Workers :
          Cardinality({r \in rate_limits :
                          r.timestamp > pending[w][1].time - RATE_LIMIT_PERIOD})
             + Cardinality(Workers) > RATE_LIMIT_REQUESTS

MaxLen == 4

SanitizeAlphabet == {"<", ">", "&", "\"", "'", "a", "l", "t", ";"}

SanitizeInputs ==
    {None} \cup UNION {[1..n -> SanitizeAlphabet] : n \in 0..MaxLen}

InitSanitize ==
    /\ \E text \in SanitizeInputs : resp = [op |-> "input", text |-> text]
    /\ enabled = TRUE
    /\ mail_username = None
    /\ clock = 0
    /\ rate_limits = {}
    /\ contacts = <<>>
    /\ prayer_requests = <<>>
    /\ newsletter = <<>>
    /\ hist = <<>>
    /\ pending = [w \in Workers |-> <<>>]
    /\ app = "package"
    /\ session = [s \in Sessions |-> FALSE]
    /\ events = {SampleEvent}
    /\ sqlite_sequence = 1
    /\ services = <<SampleService>>
    /\ announcements = <<SampleAnnouncement>>

\* clean = sanitize_input(text)
Sanitize ==
    /\ resp.op = "input"
    /\ resp' = [op |-> "sanitize", text |-> resp.text,
                clean |-> sanitize_input(resp.text)]
    /\ UNCHANGED <<publicVars, adminVars>>

NextSanitize == Sanitize

SpecSanitize == InitSanitize /\ [][NextSanitize]_vars

Entities ==
    {<<"&", "a", "m", "p", ";">>, <<"&", "l", "t", ";">>, <<"&", "g", "t", ";">>,
     <<"&", "q", "u", "o", "t", ";">>, <<"&", "#", "x", "2", "7", ";">>}

\* Text e stands in text s from place i on.
StandsAt(s, i, e) ==
    /\ i + Len(e) - 1 <= Len(s)
    /\ \A k \in 1..Len(e) : s[i + k - 1] = e[k]

\* C16: for a text, the output of sanitize_input holds no '<', '>', '"' or
\* "'" and each '&' of it begins one of &amp; &lt; &gt; &quot; &#x27;; for
\* null the output is null.
C16_SanitizedIsEscaped ==
    resp.op = "sanitize" =>
        IF resp.text = None THEN resp.clean = None
        ELSE /\ \A i \in 1..Len(resp.clean) :
                   /\ resp.clean[i] \notin {"<", ">", "\"", "'"}
                   /\ resp.clean[i] = "&"
                         => \E e \in Entities : StandsAt(resp.clean, i, e)

\* A text with an empty tag, an ampersand and a quote has been sanitized to
\* the two entities.
C16_Witness ==
    /\ resp.op = "sanitize"
    /\ resp.text = <<"<", ">", "&", "'">>
    /\ resp.clean = <<"&", "a", "m", "p", ";", "&", "#", "x", "2", "7", ";">>

(***************************************************************************)
(* SpecApi: every route of the API within one second, which keeps the      *)
(* rate limiter below its limit; two clients, one browser session, an      *)
(* accepted and a refused body for the two submission routes, the admin    *)
(* logged in or not, adding at most one row to each of its tables.  The    *)
(* package accepts a login without credentials.                            *)
(***************************************************************************)
\* Requests to the rate-limited routes.
MaxSubmissions == 2

ContactNoMessage == [name |-> TxtA, email |-> EmailGood, subject |-> None,
                     message |-> None]
PrayerNoRequest == [name |-> TxtA, email |-> None, request |-> None,
                    is_anonymous |-> FALSE]

InitApi == InitWith(TRUE, None, {}, <<>>, "package")

\* The id of the newest event and the next one, which no event has.
SomeEventIds == {sqlite_sequence, sqlite_sequence + 1}

NextApi ==
    \/ /\ Len(hist) < MaxSubmissions
       /\ \/ \E ip \in Clients : PostContact(ip, ContactOk, TRUE)
          \/ PostContact("10.0.0.1", ContactNoMessage, TRUE)
          \/ \E data \in {PrayerOk, PrayerNoRequest} :
                 PostPrayerRequest("10.0.0.1", data)
          \/ PostNewsletter("10.0.0.1", NewsletterOk)
    \/ AdminLogin("s1", [username |-> None, password |-> None])
    \/ AdminLogout("s1")
    \/ /\ sqlite_sequence = SampleEvent.id
       /\ PostEvents("s1", EventBody(TxtA, Date2030))
    \/ \E id \in SomeEventIds : PutEvent("s1", id, EventBody(TxtA, Date2030))
    \/ \E id \in SomeEventIds : DeleteEvent("s1", id)
    \/ \E id \in SomeEventIds : GetEvent("s1", id)
    \/ GetEvents("s1")
    \/ /\ services = <<SampleService>>
       /\ PostServices("s1", [day |-> <<"S">>, time |-> <<"9">>, type |-> None,
                              description |-> None])
    \/ GetServices("s1")
    \/ /\ announcements = <<SampleAnnouncement>>
       /\ PostAnnouncements("s1", [title |-> TxtA, content |-> TxtHi,
                                   expiry_date |-> None])
    \/ GetAnnouncements("s1")

SpecApi == InitApi /\ [][NextApi]_vars

\* Table new is table old with one more row at its end.
GrowsByOne(old, new) == Len(new) = Len(old) + 1 /\ SubSeq(new, 1, Len(old)) = old

\* The step is a POST to the given submission route answered with 201.
IsAccepted(op) == hist' # hist /\ resp'.op = op /\ resp'.status = 201

\* C17: no request modifies or deletes a row of contacts or prayer_requests:
\* a step leaves each of the two tables as it is, except that a POST /contact
\* answered with 201 adds exactly one row at the end of contacts, and a
\* POST /prayer-requests answered with 201 adds exactly one row at the end of
\* prayer_requests.
C17_SubmissionsAreImmutable ==
    [][/\ IF IsAccepted("contact") THEN GrowsByOne(contacts, contacts')
          ELSE contacts' = contacts
       /\ IF IsAccepted("prayer") THEN GrowsByOne(prayer_requests, prayer_requests')
          ELSE prayer_requests' = prayer_requests]_vars

\* Two clients have a row in contacts, and since then an admin has deleted
\* the last event.
C17_Witness ==
    /\ Len(contacts) = 2
    /\ events = {}
    /\ resp.op = "events" /\ resp.method = "DELETE" /\ resp.status = 200

(***************************************************************************)
(* Claims about the sweep and the window's edge (Spec).                    *)
(***************************************************************************)
\* C18: after every request to a rate-limited route made at time now with
\* the limiter on, admitted or rejected, rate_limits holds no entry of any
\* client or route with timestamp < now - RATE_LIMIT_PERIOD.
C18_NoStaleEntryAfterRequest ==
    [][(IsRequest /\ enabled) =>
          \A r \in rate_limits' :
              ~(r.timestamp < ThisRequest.time - RATE_LIMIT_PERIOD)]_vars

\* The stored entries of one client and route whose timestamp is exactly
\* the start of the window that ends at time now.
AtEdge(ip, endpoint, now) ==
    {r \in rate_limits : /\ r.ip_address = ip
                         /\ r.endpoint = endpoint
                         /\ r.timestamp = now - RATE_LIMIT_PERIOD}

\* C19: with the limiter on, a request at time now is rejected with 429
\* exactly when max_requests or more entries of its client and route have a
\* timestamp > now - RATE_LIMIT_PERIOD, so an entry at exactly
\* now - RATE_LIMIT_PERIOD is not counted; every entry with that timestamp
\* is still stored after the request; and an entry leaves rate_limits only
\* in a request whose cutoff now - RATE_LIMIT_PERIOD is strictly larger than
\* the entry's timestamp.
C19_EdgeEntryNeitherCountedNorSwept ==
    [][/\ (IsRequest /\ enabled) =>
            LET req == ThisRequest
            IN  /\ resp'.status = 429
                      <=> Cardinality(Counted(req.ip, req.endpoint, req.time))
                              >= RATE_LIMIT_REQUESTS
                /\ \A r \in rate_limits :
                       r.timestamp = req.time - RATE_LIMIT_PERIOD
                           => r \in rate_limits'
       /\ \A r \in rate_limits \ rate_limits' :
              /\ IsRequest
              /\ r.timestamp < ThisRequest.time - RATE_LIMIT_PERIOD]_vars

\* A request has just been admitted although, with the entry at the start of
\* its window, max_requests entries of its client and route were stored; the
\* entry at the start of the window is still stored.
C19_Witness ==
    /\ enabled
    /\ hist # <<>>
    /\ LET req == hist[Len(hist)]
           entry == [ip_address |-> req.ip, endpoint |-> req.endpoint,
                     timestamp |-> req.time]
       IN  /\ req.admitted
           /\ req.time = clock
           /\ entry \in rate_limits
           /\ AtEdge(req.ip, req.endpoint, req.time) # {}
           /\ Cardinality((Counted(req.ip, req.endpoint, req.time)
                           \cup AtEdge(req.ip, req.endpoint, req.time))
                          \ {entry}) >= RATE_LIMIT_REQUESTS

\* C20: with the limiter on, a request made when fewer than max_requests
\* entries of its client and route are counted is admitted and its entry
\* (client, route, now) is stored, whatever now is, the timestamp of an
\* earlier admitted request of the same client and route included.
C20_BelowLimitIsAdmitted ==
    [][(IsRequest /\ enabled) =>
          LET req == ThisRequest
              entry == [ip_address |-> req.ip, endpoint |-> req.endpoint,
                        timestamp |-> req.time]
          IN  Cardinality(Counted(req.ip, req.endpoint, req.time))
                  < RATE_LIMIT_REQUESTS
              => /\ req.admitted
                 /\ resp'.ran
                 /\ resp'.status # 500
                 /\ entry \in rate_limits']_vars

(***************************************************************************)
(* SpecServices: POST /services and GET /services from one browser         *)
(* session, the admin logged in or not, over present, absent and empty     *)
(* day and time.                                                           *)
(***************************************************************************)
ServiceDayTimeBodies ==
    [day : {None, <<>>, <<"S">>}, time : {None, <<>>, <<"9">>}, type : {None},
     description : {None, <<"W">>}]

InitServices == \E a \in {"package", "script"} : InitWith(TRUE, None, {}, <<>>, a)

NextServices ==
    \/ \E data \in {[username |-> None, password |-> None],
                    [username |-> ADMIN_USERNAME, password |-> ADMIN_PASSWORD]} :
           AdminLogin("s1", data)
    \/ AdminLogout("s1")
    \/ \E data \in ServiceDayTimeBodies :
           Len(services) < MaxRows /\ PostServices("s1", data)
    \/ GetServices("s1")

SpecServices == InitServices /\ [][NextServices]_vars

\* The step is a POST /services.
IsServicesPost == resp'.op = "services" /\ resp'.method = "POST"

\* C21: every row of services has a non-empty day and a non-empty time, and
\* a POST /services by an admin whose day or time is missing or empty is
\* answered 400 and leaves services as it was.
C21_ServicesNeedDayAndTime ==
    /\ \A i \in 1..Len(services) :
           Truthy(services[i].day) /\ Truthy(services[i].time)
    /\ [][(IsServicesPost /\ session[resp'.session]
              /\ (~Truthy(resp'.data.day) \/ ~Truthy(resp'.data.time)))
          => (resp'.status = 400 /\ services' = services)]_vars

(***************************************************************************)
(* SpecInvalid: the three rate-limited routes with the limiter on, one     *)
(* client, a body the handler accepts and one it answers 400 for each      *)
(* route.                                                                  *)
(***************************************************************************)
NewsletterBadEmail == [email |-> EmailBad]

InitInvalid == InitWith(TRUE, None, {}, <<>>, "package")

NextInvalid ==
    \/ Tick
    \/ \E data \in {ContactOk, ContactNoMessage} :
           PostContact("10.0.0.1", data, TRUE)
    \/ \E data \in {PrayerOk, PrayerNoRequest} :
           PostPrayerRequest("10.0.0.1", data)
    \/ \E data \in {NewsletterOk, NewsletterBadEmail} :
           PostNewsletter("10.0.0.1", data)

SpecInvalid == InitInvalid /\ [][NextInvalid]_vars

\* C22: with the limiter on, a request answered 400 by its handler was
\* admitted by the limiter and has added exactly one entry to rate_limits,
\* its own (client, route, now), which the limiter counts for later requests
\* of that client and route; and a request made when max_requests entries of
\* its client and route are counted is answered 429 without its handler
\* running, whatever its body.
C22_LimiterRunsBeforeValidation ==
    [][(IsRequest /\ enabled) =>
          LET req == ThisRequest
              entry == [ip_address |-> req.ip, endpoint |-> req.endpoint,
                        timestamp |-> req.time]
              counted == Counted(req.ip, req.endpoint, req.time)
          IN  /\ resp'.status = 400
                    => /\ req.admitted
                       /\ resp'.ran
                       /\ rate_limits' \ rate_limits = {entry}
                       /\ {r \in rate_limits' :
                              /\ r.ip_address = req.ip
                              /\ r.endpoint = req.endpoint
                              /\ r.timestamp > req.time - RATE_LIMIT_PERIOD}
                          = counted \cup {entry}
              /\ Cardinality(counted) >= RATE_LIMIT_REQUESTS
                    => resp'.status = 429 /\ ~resp'.ran]_vars

\* A POST /contact without message has just been answered 429 while no row
\* is stored in contacts: the entries that filled the limit are those of
\* requests answered 400.
C22_Witness ==
    /\ resp.op = "contact"
    /\ resp.data = ContactNoMessage
    /\ resp.status = 429
    /\ contacts = <<>>
    /\ Cardinality(Counted("10.0.0.1", "contact", clock)) = RATE_LIMIT_REQUESTS

(***************************************************************************)
(* Claims about the limit as an invariant (Spec: requests are served one   *)
(* at a time and the clock never goes back).                               *)
(***************************************************************************)
RateLimitedEndpoints == {"contact", "prayer", "newsletter"}

\* The logged requests of one client to one route that reached the handler
\* inside the window that ends at time now.
AdmittedInWindow(ip, endpoint, now) ==
    {i \in 1..Len(hist) : /\ hist[i].ip = ip
                          /\ hist[i].endpoint = endpoint
                          /\ hist[i].admitted
                          /\ hist[i].time > now - RATE_LIMIT_PERIOD
                          /\ hist[i].time <= now}

\* C23: with the limiter on, in every reachable state each client and route
\* has at most max_requests entries in rate_limits with
\* timestamp > now - RATE_LIMIT_PERIOD, and at most max_requests of its
\* requests have reached the handler inside any window that ended at a time
\* up to now.
C23_AtMostMaxRequestsPerWindow ==
    enabled =>
        \A ip \in Clients, endpoint \in RateLimitedEndpoints :
            /\ Cardinality(Counted(ip, endpoint, clock)) <= RATE_LIMIT_REQUESTS
            /\ \A now \in 0..clock :
                   Cardinality(AdmittedInWindow(ip, endpoint, now))
                       <= RATE_LIMIT_REQUESTS

\* With the limiter on, a client has had max_requests requests to a route
\* admitted inside the current window and its next one rejected with 429.
C23_Witness ==
    /\ enabled
    /\ Len(hist) > RATE_LIMIT_REQUESTS
    /\ resp.status = 429
    /\ hist[Len(hist)].time = clock
    /\ Cardinality(AdmittedInWindow(resp.ip, resp.op, clock)) = RATE_LIMIT_REQUESTS
    /\ Cardinality(Counted(resp.ip, resp.op, clock)) = RATE_LIMIT_REQUESTS

(***************************************************************************)
(* Claims about the independence of the keys (Spec).  The history of the   *)
(* requests of one client to one route is compared with the history in     *)
(* which no other request is made and no entry of another key is stored:   *)
(* two histories that differ only in other keys both agree with it.        *)
(***************************************************************************)
\* The logged requests of one client to one route, in order.
OwnRequests(ip, endpoint) ==
    SelectSeq(hist, LAMBDA h : h.ip = ip /\ h.endpoint = endpoint)

\* What rate_limit answers to the first n of these requests when they are
\* the only requests made and rate_limits starts empty: the table after
\* them and, for each of them, whether it was admitted.
RECURSIVE Alone(_, _, _, _)
Alone(ip, endpoint, own, n) ==
    IF n = 0 THEN [rate_limits |-> {}, admitted |-> <<>>]
    ELSE LET before == Alone(ip, endpoint, own, n - 1)
             rl == rate_limit(ip, endpoint, own[n].time, before.rate_limits)
         IN  [rate_limits |-> rl.rate_limits,
              admitted |-> Append(before.admitted, rl.admitted)]

\* The keys no entry of which is stored before the first request.
FreshKeys ==
    {k \in Clients \X RateLimitedEndpoints :
        k # <<OldEntry.ip_address, OldEntry.endpoint>>}

=============================================================================
